---- MODULE Spec2Model ----
(***************************************************************************)
(* Two Streamlit scripts.                                                  *)
(*   3_EmployeeAttendence.py    : attendance form, session-scoped list,    *)
(*                                table and Excel export.                  *)
(*   5_Display_And_Style_Data.py: seeded sample dataset, editable grid,    *)
(*                                revenue recomputed after the edits.      *)
(* Streamlit executes a script from top to bottom on every interaction;    *)
(* one action below is one such execution.  The two scripts share no       *)
(* state; Spec runs the first, SpecShowcase the second.                    *)
(***************************************************************************)
EXTENDS Integers, Sequences, FiniteSets, TLC

VARIABLES
    \* ---- 3_EmployeeAttendence.py ----
    session_state,    \* st.session_state: key -> value
    clock,            \* the instant pd.Timestamp.now() returned to the last submission
    form,             \* values of the four form widgets
    submitted,        \* return value of st.form_submit_button in this run
    page,             \* names of the elements the run has rendered
    dataframe,        \* argument of st.dataframe(df): <<>> or <<df>>
    download_button,  \* the download control: <<>> or <<control>>
    to_excel_called,  \* whether this run called to_excel
    downloaded,       \* the file the browser received last: <<>> or <<control>>
    submissions,      \* the form values of every submission, oldest first
    \* ---- 5_Display_And_Style_Data.py ----
    today,            \* date.today() as a day number
    previous,         \* day and dataset of the execution before: <<>> or <<run>>
    df,               \* the sample dataset, <<>> before the first execution
    editor_state,     \* the data_editor widget's stored cell edits
    edited,           \* frame returned by st.data_editor
    merged            \* frame shown under "Recomputed totals after edits"

attendance_vars == <<session_state, clock, form, submitted, page, dataframe,
                     download_button, to_excel_called, downloaded, submissions>>
showcase_vars == <<today, previous, df, editor_state, edited, merged>>
vars == <<session_state, clock, form, submitted, page, dataframe,
          download_button, to_excel_called, downloaded, submissions,
          today, previous, df, editor_state, edited, merged>>

(***************************************************************************)
(* Bounds of the model.                                                    *)
(***************************************************************************)
MaxRecords == 2
MaxClock == 1
MaxEdits == 2
MaxEditRow == 3
MaxDay == 1

(***************************************************************************)
(* 3_EmployeeAttendence.py                                                 *)
(***************************************************************************)
Statuses == {"Present", "Absent", "Remote", "On Leave"}
EmpIds == {"", "E1"}
EmpNames == {"Alice"}
Dates == {10, 11}

Columns == <<"Date", "Employee ID", "Employee Name", "Status", "Timestamp">>

FormValues == [emp_id : EmpIds, emp_name : EmpNames, status : Statuses, date : Dates]

\* The dict appended by the submit handler.
AttendanceRecord(f, now) ==
    [c \in {"Date", "Employee ID", "Employee Name", "Status", "Timestamp"} |->
        CASE c = "Date" -> [t |-> "date", v |-> f.date]
          [] c = "Employee ID" -> [t |-> "str", v |-> f.emp_id]
          [] c = "Employee Name" -> [t |-> "str", v |-> f.emp_name]
          [] c = "Status" -> [t |-> "str", v |-> f.status]
          [] c = "Timestamp" -> [t |-> "datetime", v |-> now]]

InitSessionStateEveryRun(ss) == ("attendance_data" :> <<>>) @@ ss
\* if "attendance_data" not in st.session_state: ... = []
InitSessionState(ss) ==
    IF "attendance_data" \notin DOMAIN ss
    THEN ("attendance_data" :> <<>>) @@ ss
    ELSE ss

SameEntry(a, b) ==
    /\ a["Date"] = b["Date"]
    /\ a["Employee ID"] = b["Employee ID"]
    /\ a["Employee Name"] = b["Employee Name"]
SubmitHandlerPrepend(ss, sub, f, now) ==
    IF sub
    THEN [ss EXCEPT !["attendance_data"] = <<AttendanceRecord(f, now)>> \o @]
    ELSE ss
SubmitHandlerUpsert(ss, sub, f, now) ==
    IF sub
    THEN LET new == AttendanceRecord(f, now)
             old == ss["attendance_data"]
         IN  IF \E k \in 1..Len(old) : SameEntry(old[k], new)
             THEN [ss EXCEPT !["attendance_data"] =
                      [k \in 1..Len(old) |-> IF SameEntry(old[k], new) THEN new ELSE old[k]]]
             ELSE [ss EXCEPT !["attendance_data"] = Append(@, new)]
    ELSE ss
\* if submitted: st.session_state.attendance_data.append({...})
SubmitHandler(ss, sub, f, now) ==
    IF sub
    THEN [ss EXCEPT !["attendance_data"] = Append(@, AttendanceRecord(f, now))]
    ELSE ss

\* pd.DataFrame(list of dicts): the columns are the dicts' keys in insertion
\* order, one row per dict, RangeIndex 0..n-1.
DataFrame(data) == [columns |-> Columns, rows |-> data]

\* worksheet.write() of the xlsxwriter engine, with the options pandas
\* leaves at their defaults: an empty string is written as a blank cell and
\* a blank cell without a format is not stored; dates and datetimes become
\* date cells; any other string is a string cell.
WriteCell(x) ==
    IF x.t = "str" /\ x.v = "" THEN [t |-> "blank"] ELSE x

\* df.to_excel(writer, index=False, sheet_name='Attendance')
to_excel(d) ==
    [sheet |-> "Attendance",
     header |-> d.columns,
     cells |-> [r \in 1..Len(d.rows) |->
                  [k \in 1..Len(d.columns) |-> WriteCell(d.rows[r][d.columns[k]])]]]

attendance_data ==
    IF "attendance_data" \in DOMAIN session_state
    THEN session_state["attendance_data"]
    ELSE <<>>

HasRecordsAlways(data) == TRUE
\* if st.session_state.attendance_data: (a list is true when it is not empty)
HasRecords(data) == data # <<>>

DownloadControl(bytes) ==
    [data |-> bytes,
     file_name |-> "employee_attendance.xlsx",
     mime |-> "application/vnd.openxmlformats-officedocument.spreadsheetml.sheet"]

EmptyFile == [sheet |-> "Attendance", header |-> <<>>, cells |-> <<>>]
ExportSwallowingErrors(d, fail) ==
    <<DownloadControl(IF fail THEN EmptyFile ELSE to_excel(d))>>
\* excel_data = to_excel(df); st.download_button(..., data=excel_data, ...)
\* An exception raised in to_excel leaves the script at that line: the
\* download_button call is not reached.
Export(d, fail) ==
    IF fail THEN <<>> ELSE <<DownloadControl(to_excel(d))>>

DisplayStale(old, new) == old
\* The sequence the display branch reads: the session's list after the form
\* block has run.
Display(old, new) == new

\* One execution of the script, lines 5-50.  sub: the submit button's value;
\* f: the widget values; now: what pd.Timestamp.now() returns if the handler
\* runs; fail: the ExcelWriter block raises.
ScriptRun(sub, f, now, fail) ==
    LET ss == SubmitHandler(InitSessionState(session_state), sub, f, now)
        data == Display(attendance_data, ss["attendance_data"])
        d == DataFrame(data)
        control == Export(d, fail)
        message == IF sub THEN {"success"} ELSE {}
    IN  /\ session_state' = ss
        /\ submitted' = sub
        /\ form' = f
        /\ clock' = IF sub THEN now ELSE clock
        /\ submissions' = IF sub THEN Append(submissions, f) ELSE submissions
        /\ IF HasRecords(data)
           THEN /\ dataframe' = <<d>>
                /\ to_excel_called' = TRUE
                /\ download_button' = control
                /\ page' = message \cup {"subheader", "dataframe"}
                           \cup (IF fail THEN {"exception"} ELSE {})
                           \cup (IF control # <<>> THEN {"download_button"} ELSE {})
           ELSE /\ dataframe' = <<>>
                /\ to_excel_called' = FALSE
                /\ download_button' = <<>>
                /\ page' = message \cup {"info"}

\* The clock does not run backwards.
Ticks == {t \in {clock, clock + 1} : t <= MaxClock}

\* The first execution of a session, and any later one that carries no
\* submission.
Rerun ==
    /\ \E fail \in BOOLEAN : ScriptRun(FALSE, form, clock, fail)
    /\ UNCHANGED downloaded
    /\ UNCHANGED showcase_vars

\* The user fills the form and presses "Submit Attendance".  The form exists
\* once an execution has rendered it.
Submit ==
    /\ "attendance_data" \in DOMAIN session_state
    /\ Len(attendance_data) < MaxRecords
    /\ \E f \in FormValues, now \in Ticks, fail \in BOOLEAN : ScriptRun(TRUE, f, now, fail)
    /\ UNCHANGED downloaded
    /\ UNCHANGED showcase_vars

\* The user presses the download control of the page on screen: the browser
\* receives the bytes the control carries and the script is executed again.
Download ==
    /\ download_button # <<>>
    /\ downloaded' = download_button
    /\ \E fail \in BOOLEAN : ScriptRun(FALSE, form, clock, fail)
    /\ UNCHANGED showcase_vars

InitAttendance ==
    /\ session_state = <<>>
    /\ clock = 0
    /\ form = [emp_id |-> "", emp_name |-> "", status |-> "Present", date |-> 10]
    /\ submitted = FALSE
    /\ page = {}
    /\ dataframe = <<>>
    /\ download_button = <<>>
    /\ to_excel_called = FALSE
    /\ downloaded = <<>>
    /\ submissions = <<>>

(***************************************************************************)
(* 5_Display_And_Style_Data.py                                             *)
(***************************************************************************)
products == <<
    <<"Engine Oil", "AutoCare">>,
    <<"Air Filter", "AutoCare">>,
    <<"Spark Plug", "AutoCare">>,
    <<"Brake Pads", "AutoCare">>,
    <<"Coolant", "AutoCare">>,
    <<"Wiper Blade", "AutoCare">>,
    <<"GPS Tracker", "Electronics">>,
    <<"Phone Mount", "Electronics">>,
    <<"Dash Cam", "Electronics">>,
    <<"Tyre Shine", "CarCare">> >>

\* np.random.default_rng(42)
SeedFromDay == 42 + today
Seed == 42

\* The n-th output (n = 0, 1, ...) of the bit generator seeded with seed.  The
\* generator is a function of the seed and of the number of values drawn
\* before; the numbers themselves stand for the PCG64 stream.
PCG64(seed, n) == ((seed + 7) * (31 * n + 17)) % 9973

\* rng.integers(low, high): low <= value < high
integers(seed, n, low, high) == low + (PCG64(seed, n) % (high - low))
\* rng.choice(seq)
choice(seed, n, seq) == seq[1 + (PCG64(seed, n) % Len(seq))]

\* Ratings are kept in tenths: 3.2 is 32.
Ratings == <<32, 38, 40, 43, 46, 48, 50>>
StockFlags == <<TRUE, TRUE, TRUE, FALSE>>

\* A missing number (None in the grid, NaN in a frame).
NaN == 0 - 1
Mul(a, b) == IF a = NaN \/ b = NaN THEN NaN ELSE a * b

\* Body of the loop over enumerate(products, start=1); five draws per row.
\* day is date.today() of the execution.  price is float(integer): the
\* products below are exact.
ProductRow(i, day) ==
    LET n == 5 * (i - 1)
        units == integers(Seed, n, 50, 400)
        price == integers(Seed, n + 1, 150, 3500)
    IN  [id |-> i,
         product |-> products[i][1],
         category |-> products[i][2],
         units |-> units,
         price |-> price,
         rating |-> choice(Seed, n + 2, Ratings),
         in_stock |-> choice(Seed, n + 3, StockFlags),
         added_on |-> (day - 120) + integers(Seed, n + 4, 0, 120),
         url |-> <<"https://example.com/product/", i>>,
         revenue |-> units * price]

\* rows, pd.DataFrame(rows, columns=[...]) and df["revenue"]
Dataset(day) == [i \in 1..Len(products) |-> ProductRow(i, day)]

\* df[["id", "product", "units", "price", "in_stock"]]
GridColumns == {"id", "product", "units", "price", "in_stock"}
GridView(d) == [k \in 1..Len(d) |-> [c \in GridColumns |-> d[k][c]]]

\* st.data_editor: the frame it is given with the stored cell edits written
\* over it, row by row position.  num_rows is "fixed": no row is added or
\* removed.
data_editor(grid, st) ==
    [k \in 1..Len(grid) |->
        [c \in GridColumns |->
            IF k \in DOMAIN st /\ c \in DOMAIN st[k] THEN st[k][c] ELSE grid[k][c]]]

\* df.drop(columns=["units", "in_stock"])
DropColumns(row) == [c \in (DOMAIN row) \ {"units", "in_stock"} |-> row[c]]
\* edited[["id", "units", "in_stock"]]
EditedColumnsAll(row) == row
EditedColumns(row) == [c \in {"id", "units", "in_stock"} |-> row[c]]

\* One output row of the join: the left row's columns, then the right row's
\* (missing values when no right row has the id).
NoMatch == [units |-> NaN, in_stock |-> NaN]
MergeRow(l, r) == r @@ l

RECURSIVE LeftJoin(_, _)
\* left.merge(right, on="id", how="left"): left order, one output row for
\* every right row with the left row's id, one with missing values if none.
LeftJoin(left, right) ==
    IF left = <<>> THEN <<>>
    ELSE LET l == Head(left)
             m == SelectSeq(right, LAMBDA r : r.id = l.id)
             out == IF m = <<>> THEN <<MergeRow(l, NoMatch)>>
                    ELSE [j \in 1..Len(m) |-> MergeRow(l, m[j])]
         IN  out \o LeftJoin(Tail(left), right)

\* merged["revenue"] = merged["units"] * merged["price"]
RecomputeStale(m) == m
Recompute(m) == [k \in 1..Len(m) |-> [m[k] EXCEPT !.revenue = Mul(m[k].units, m[k].price)]]

\* Values the grid can hand back for a cell.  units has min_value=0 and can
\* be cleared; in_stock is a checkbox.  product and price are disabled in the
\* front end only: the stored edits are applied as they are.
EditValues(c) ==
    CASE c = "units" -> {0, 150, NaN}
      [] c = "in_stock" -> BOOLEAN
      [] c = "price" -> {1}
      [] c = "product" -> {"Renamed"}

EditedCells(st) == UNION {{<<k, c>> : c \in DOMAIN st[k]} : k \in DOMAIN st}

SetCell(st, k, c, v) ==
    [j \in (DOMAIN st) \cup {k} |->
        IF j = k
        THEN (c :> v) @@ (IF k \in DOMAIN st THEN st[k] ELSE <<>>)
        ELSE st[j]]

\* One execution of the script on day `day` with the widget state st.
ShowcaseRun(day, st) ==
    \E d \in {Dataset(day)} :
      \E e \in {data_editor(GridView(d), st)} :
        /\ today' = day
        /\ previous' = IF df = <<>> THEN <<>> ELSE <<[today |-> today, df |-> df]>>
        /\ df' = d
        /\ editor_state' = st
        /\ edited' = e
        /\ merged' = Recompute(LeftJoin([k \in 1..Len(d) |-> DropColumns(d[k])],
                                        [k \in 1..Len(e) |-> EditedColumns(e[k])]))

Days == {t \in {today, today + 1} : t <= MaxDay}

\* The page is opened or re-executed; the widget keeps its edits.
Execute ==
    /\ \E day \in Days : ShowcaseRun(day, editor_state)
    /\ UNCHANGED attendance_vars

\* The user changes one cell of the grid, which re-executes the script.
EditCell ==
    /\ df # <<>>
    /\ \E k \in 1..MaxEditRow, c \in {"units", "in_stock", "price", "product"} :
         \E v \in EditValues(c), day \in Days :
            /\ Cardinality(EditedCells(editor_state) \cup {<<k, c>>}) <= MaxEdits
            /\ ShowcaseRun(day, SetCell(editor_state, k, c, v))
    /\ UNCHANGED attendance_vars

InitShowcase ==
    /\ today = 0
    /\ previous = <<>>
    /\ df = <<>>
    /\ editor_state = <<>>
    /\ edited = <<>>
    /\ merged = <<>>

Init == InitAttendance /\ InitShowcase

Next == Rerun \/ Submit \/ Download

Spec == Init /\ [][Next]_vars

NextShowcase == Execute \/ EditCell

SpecShowcase == Init /\ [][NextShowcase]_vars

(***************************************************************************)
(* Properties of 3_EmployeeAttendence.py (checked under Spec).             *)
(***************************************************************************)
Ran == "attendance_data" \in DOMAIN session_state

FieldsOf(rec) ==
    [emp_id |-> rec["Employee ID"].v, emp_name |-> rec["Employee Name"].v,
     status |-> rec["Status"].v, date |-> rec["Date"].v]

IsPrefix(a, b) == Len(a) <= Len(b) /\ SubSeq(b, 1, Len(a)) = a

\* C1: after N submissions the session's sequence, and the table rendered
\* from it, hold exactly N records, the k-th with the field values of the
\* k-th submission.
C1_CountAndOrder ==
    /\ Len(attendance_data) = Len(submissions)
    /\ \A k \in 1..Len(submissions) : FieldsOf(attendance_data[k]) = submissions[k]
    /\ dataframe # <<>> =>
          /\ Len(dataframe[1].rows) = Len(submissions)
          /\ \A k \in 1..Len(submissions) : FieldsOf(dataframe[1].rows[k]) = submissions[k]
    /\ (Ran /\ submissions # <<>>) => dataframe # <<>>

C1_Witness ==
    /\ Len(submissions) = 2
    /\ submissions[1] # submissions[2]
    /\ ~submitted
    /\ dataframe # <<>>
    /\ FieldsOf(dataframe[1].rows[2]) = submissions[2]

\* C2: a run in which the sequence is empty neither calls to_excel nor offers
\* the download control, and shows the "no records yet" message instead of a
\* table; a download control, and any file downloaded, has at least one row.
C2_NoEmptyExport ==
    /\ attendance_data = <<>> =>
          /\ ~to_excel_called
          /\ download_button = <<>>
          /\ "download_button" \notin page
          /\ dataframe = <<>>
          /\ "dataframe" \notin page
          /\ Ran => "info" \in page
    /\ download_button # <<>> =>
          /\ Len(attendance_data) >= 1
          /\ Len(download_button[1].data.cells) >= 1
    /\ "download_button" \in page <=> download_button # <<>>
    /\ \A i \in 1..Len(downloaded) : Len(downloaded[i].data.cells) >= 1

C2_Witness ==
    /\ Ran
    /\ attendance_data = <<>>
    /\ "info" \in page

\* C4: a submission always adds exactly one record at the end, whatever
\* records the sequence already holds; nothing is merged or overwritten.
C4_NoDeduplication ==
    [][submitted' =>
          /\ Len(attendance_data') = Len(attendance_data) + 1
          /\ SubSeq(attendance_data', 1, Len(attendance_data)) = attendance_data
          /\ FieldsOf(attendance_data'[Len(attendance_data')]) = form']_vars

C4_Witness ==
    /\ Len(attendance_data) = 2
    /\ SameEntry(attendance_data[1], attendance_data[2])
    /\ attendance_data[1]["Employee ID"].v = "E1"
    /\ attendance_data[1]["Employee Name"].v = "Alice"
    /\ attendance_data[1]["Status"].v = "Present"
    /\ attendance_data[2]["Status"].v = "Remote"

\* Reading the sheet back (pd.read_excel defaults): row 1 is the header, a
\* cell that is not stored is a missing value, a date cell is a datetime at
\* midnight of the same day.
ReadCell(x) ==
    CASE x.t = "blank" -> [t |-> "nan"]
      [] x.t = "date" -> [t |-> "date", v |-> x.v]
      [] OTHER -> x

read_excel(wb) ==
    [columns |-> wb.header,
     rows |-> [r \in 1..Len(wb.cells) |->
                 [c \in {wb.header[k] : k \in 1..Len(wb.header)} |->
                     ReadCell(wb.cells[r][CHOOSE k \in 1..Len(wb.header) : wb.header[k] = c])]]]

\* C5: reading back the exported sheet gives the columns Date, Employee ID,
\* Employee Name, Status, Timestamp, one row per record in order, and the
\* record's value in every date, text and status cell.
C5_RoundTrip ==
    download_button # <<>> =>
        LET back == read_excel(download_button[1].data)
        IN  /\ download_button[1].data.sheet = "Attendance"
            /\ back.columns = Columns
            /\ Len(back.rows) = Len(attendance_data)
            /\ \A k \in 1..Len(back.rows) :
                 \A c \in {"Date", "Employee ID", "Employee Name", "Status"} :
                    back.rows[k][c] = attendance_data[k][c]

\* C6: every step leaves the old sequence as a prefix of the new one, and a
\* step without a submission (plain re-run, download) leaves it unchanged.
C6_AppendOnly ==
    [][/\ IsPrefix(attendance_data, attendance_data')
       /\ ~submitted' => attendance_data' = attendance_data
       /\ Len(attendance_data') <= Len(attendance_data) + 1]_vars

C6_Witness ==
    /\ downloaded # <<>>
    /\ ~submitted
    /\ Len(attendance_data) = 2
    /\ Len(downloaded[1].data.cells) = 1

\* C7: a run in which to_excel raises shows the exception, offers no download
\* control, and changes the sequence by nothing but the run's own submission.
C7_FailureSurfaces ==
    []["exception" \in page' =>
          /\ download_button' = <<>>
          /\ "download_button" \notin page'
          /\ "info" \notin page'
          /\ to_excel_called'
          /\ attendance_data' =
                IF submitted'
                THEN Append(attendance_data, AttendanceRecord(form', clock'))
                ELSE attendance_data]_vars

C7_Witness ==
    /\ "exception" \in page
    /\ ~submitted
    /\ Len(attendance_data) >= 1
    /\ dataframe # <<>>

UnitsEdited(k) == k \in DOMAIN editor_state /\ "units" \in DOMAIN editor_state[k]

\* C3: a row whose unit count was edited to u' has revenue u' * price with
\* its price unchanged; rows whose unit count was not edited keep units,
\* price and revenue; revenue = units * price in every row.
C3_RevenueRecomputed ==
    df # <<>> =>
        /\ Len(merged) = Len(df)
        /\ \A k \in 1..Len(merged) :
             /\ merged[k].price = df[k].price
             /\ merged[k].revenue = Mul(merged[k].units, merged[k].price)
             /\ (UnitsEdited(k) /\ editor_state[k].units # NaN) =>
                    merged[k].revenue = editor_state[k].units * df[k].price
             /\ ~UnitsEdited(k) =>
                    /\ merged[k].units = df[k].units
                    /\ merged[k].revenue = df[k].revenue

C3_Witness ==
    \E k \in 1..Len(merged) :
        /\ UnitsEdited(k)
        /\ editor_state[k].units = 150
        /\ df[k].units # 150
        /\ merged[k].revenue = 150 * df[k].price
        /\ merged[k].revenue # df[k].revenue

\* C8 as stated: an execution produces the same rows, in every column, as
\* the execution before it.
C8_SameDataset ==
    previous # <<>> => df = previous[1].df

WithoutAddedOn(row) == [c \in (DOMAIN row) \ {"added_on"} |-> row[c]]

\* C8 amended: an execution produces the same rows as the one before it in
\* every column but added_on, and added_on at the same distance from the day
\* of the execution.
C8_SameDatasetRelativeToDay ==
    previous # <<>> =>
        /\ Len(df) = Len(previous[1].df)
        /\ \A k \in 1..Len(df) :
             /\ WithoutAddedOn(df[k]) = WithoutAddedOn(previous[1].df[k])
             /\ df[k].added_on - today = previous[1].df[k].added_on - previous[1].today

C8_Witness ==
    /\ previous # <<>>
    /\ previous[1].today # today
    /\ df[1].added_on # previous[1].df[1].added_on

====
